---- MODULE Spec2Model ----
(***************************************************************************)
(* The property store (models.py, one SQLite table "properties"), the two *)
(* read routes of the API (main.py) and the direct store writes that the  *)
(* seed script and the tests perform through a session.                   *)
(*                                                                         *)
(* A nullable column value is <<>> (NULL / None) or <<v>>.  A price is a  *)
(* number of hundredths, so 1234567.89 is 123456789.                      *)
(***************************************************************************)
EXTENDS Integers, Sequences, FiniteSets, TLC

VARIABLES table, hist, last, pager, assigned, reqs, sessions, ing, fixture,
          dash

vars ==
  <<table, hist, last, pager, assigned, reqs, sessions, ing, fixture, dash>>

\* The requests in flight with their sessions, and the ingestion run.
others == <<reqs, sessions, ing, fixture, dash>>

\* ------------------------------------------------------------------ bounds

\* Largest primary key the model lets the store hold.
MaxId == 2

\* ------------------------------------------------------------------ values

None == <<>>

Some(v) == <<v>>

\* The (name, address, price) triples a write may give: two records that
\* share a name, and a record whose three columns are NULL.
Inputs ==
  { [name |-> Some("n1"), address |-> Some("a1"), price |-> Some(8500000)],
    [name |-> Some("n1"), address |-> Some("a2"), price |-> Some(123456789)],
    [name |-> None, address |-> None, price |-> None] }

\* The price a direct update assigns.
UpdatedPrice == Some(150000000)

\* Ids a request or an explicit insert may name: 0 and a negative id included.
IdArgs == (0 - 1) .. (MaxId + 1)

\* Values of ?skip= and ?limit=: negative, zero, inside and beyond the table.
SkipArgs == (0 - 1) .. (MaxId + 1)

LimitArgs == (0 - 1) .. (MaxId + 1)

\* A query parameter is absent (None) or given (Some(n)).
Param(S) == {None} \cup {Some(n) : n \in S}

\* ------------------------------------------------------------------ store

\* Column(Integer, primary_key=True): a row of the table.
Property(id, v) ==
  [id |-> id, name |-> v.name, address |-> v.address, price |-> v.price]

Ids(t) == {t[i].id : i \in 1 .. Len(t)}

IdSeq(t) == [i \in 1 .. Len(t) |-> t[i].id]

\* The id taken from the number of rows instead of the largest id.
NextIdByCount(t) == Len(t) + 1

\* The id the store assigns to a row inserted without one: SQLite's rowid of
\* an INTEGER PRIMARY KEY column, one more than the largest id in the table.
NextId(t) == IF t = <<>> THEN 1 ELSE t[Len(t)].id + 1

\* The table is the rowid b-tree: rows are kept in ascending id order.
InsertRow(t, row) ==
  LET lower == SelectSeq(t, LAMBDA r : r.id <= row.id)
      upper == SelectSeq(t, LAMBDA r : r.id > row.id)
  IN lower \o <<row>> \o upper

\* name = Column(String, index=True) declared unique=True.
NameUnique(t, v) == \A i \in 1 .. Len(t) : t[i].name # v.name

\* name = Column(String, index=True): the index is not unique, so a name
\* already in the table never refuses a row.
NameFree(t, v) == TRUE

\* The constraint left out: a duplicate id is accepted.
PrimaryKeyUnchecked(t, id) == TRUE

\* The primary-key constraint: a second row with an id already present is
\* refused with an IntegrityError.
PrimaryKeyFree(t, id) == id \notin Ids(t)

\* ------------------------------------------------------------------ crud

\* crud.get_properties: db.query(Property).offset(skip).limit(limit).all().
\* SQLite reads a negative OFFSET as 0 and a negative LIMIT as no limit.
get_properties(t, skip, limit) ==
  LET off == IF skip < 0 THEN 0 ELSE skip
      rest == IF off >= Len(t) THEN <<>> ELSE SubSeq(t, off + 1, Len(t))
  IN IF limit < 0 \/ limit >= Len(rest) THEN rest ELSE SubSeq(rest, 1, limit)

\* crud.get_property: db.query(Property).filter(Property.id == id).first().
get_property(t, id) ==
  LET hit == SelectSeq(t, LAMBDA r : r.id = id)
  IN IF hit = <<>> THEN None ELSE Some(hit[1])

\* ------------------------------------------------------------------ schema

\* schemas.Property: id: int, name: str, address: str, price: float.
\* None is no str and no float: validation of such a row fails.
SchemaAccepts(row) ==
  row.name # None /\ row.address # None /\ row.price # None

\* The JSON object of a validated row (from_attributes reads the columns).
ToJson(row) ==
  [id |-> row.id, name |-> row.name, address |-> row.address, price |-> row.price]

JsonSeq(rows) == [i \in 1 .. Len(rows) |-> ToJson(rows[i])]

\* ------------------------------------------------------------------ outcomes

\* The outcome of the operation performed last.
NoLast ==
  [op |-> "none", bare |-> FALSE, skip |-> 0,
   limit |-> 0, id |-> 0, rows |-> <<>>, status |-> 0, shape |-> "none",
   items |-> <<>>, detail |-> "", outcome |-> "", before |-> <<>>]

\* ------------------------------------------------------------------ routes

DefaultSkip == 0

DefaultLimit == 10

\* The call with the offset forgotten.
ListCallNoSkip(t, skip, limit) == get_properties(t, 0, limit)

\* The call with the offset one too far.
ListCallSkipOneMore(t, skip, limit) == get_properties(t, skip + 1, limit)

\* The call with the row cap one too large.
ListCallLimitOneMore(t, skip, limit) ==
  get_properties(t, skip, IF limit < 0 THEN limit ELSE limit + 1)

\* The call written with "limit or 10": a limit of 0 falls back to the default.
ListCallLimitOrDefault(t, skip, limit) ==
  get_properties(t, skip, IF limit = 0 THEN DefaultLimit ELSE limit)

\* The call with skip and limit exchanged.
ListCallSwapped(t, skip, limit) == get_properties(t, limit, skip)

\* read_properties, line 14: the call of the Query Layer.
ListCall(t, skip, limit) == get_properties(t, skip, limit)

\* read_property, line 22.
GetCall(t, id) == get_property(t, id)

\* response_model=List[schemas.Property]: every returned row is validated;
\* a row the schema refuses makes the response a 500.
ListResponse(rows) ==
  IF \A i \in 1 .. Len(rows) : SchemaAccepts(rows[i])
  THEN [status |-> 200, shape |-> "array", items |-> JsonSeq(rows), detail |-> ""]
  ELSE [status |-> 500, shape |-> "error", items |-> <<>>,
        detail |-> "Internal Server Error"]

\* The handler without the "is None" test: an absent row is answered 200.
GetResponseNoCheck(found) ==
  IF found = None
  THEN [status |-> 200, shape |-> "object", items |-> <<>>, detail |-> ""]
  ELSE IF SchemaAccepts(found[1])
  THEN [status |-> 200, shape |-> "object", items |-> <<ToJson(found[1])>>,
        detail |-> ""]
  ELSE [status |-> 500, shape |-> "error", items |-> <<>>,
        detail |-> "Internal Server Error"]

\* response_model=schemas.Property, and the HTTPException of line 24.
GetResponse(found) ==
  IF found = None
  THEN [status |-> 404, shape |-> "error", items |-> <<>>,
        detail |-> "Property not found"]
  ELSE IF SchemaAccepts(found[1])
  THEN [status |-> 200, shape |-> "object", items |-> <<ToJson(found[1])>>,
        detail |-> ""]
  ELSE [status |-> 500, shape |-> "error", items |-> <<>>,
        detail |-> "Internal Server Error"]

\* GET /properties/?skip=&limit= served against table t.
read_properties(t, skipParam, limitParam) ==
  LET skip == IF skipParam = None THEN DefaultSkip ELSE skipParam[1]
      limit == IF limitParam = None THEN DefaultLimit ELSE limitParam[1]
      rows == ListCall(t, skip, limit)
      resp == ListResponse(rows)
  IN [NoLast EXCEPT !.op = "read_properties",
                    !.bare = (skipParam = None /\ limitParam = None),
                    !.skip = skip, !.limit = limit, !.rows = rows,
                    !.status = resp.status, !.shape = resp.shape,
                    !.items = resp.items, !.detail = resp.detail]

\* GET /properties/{property_id} served against table t.
read_property(t, property_id) ==
  LET found == GetCall(t, property_id)
      resp == GetResponse(found)
  IN [NoLast EXCEPT !.op = "read_property", !.id = property_id,
                    !.rows = found,
                    !.status = resp.status, !.shape = resp.shape,
                    !.items = resp.items, !.detail = resp.detail]

\* ------------------------------------------------------------------ requests, ingestion

\* The two request slots of the server.
Requests == {"r1", "r2"}

\* A request slot: where the request stands (pc), what was asked, the
\* handler's local db, how many sessions it opened and queries it ran, the
\* exception it raised, the rows it got and the response status.  after tells
\* whether another request had ended in a store failure when this one came;
\* items is the content of the response.
NoRequest ==
  [pc |-> "idle", kind |-> "none", wellFormed |-> TRUE, skip |-> None,
   limit |-> None, id |-> 0, db |-> 0, opened |-> 0, queries |-> 0,
   raised |-> "", rows |-> <<>>, status |-> 0, detail |-> "", after |-> FALSE,
   items |-> <<>>]

NoRequests == [r \in Requests |-> NoRequest]

\* The session objects a request refers to, each "open" or "closed".
NoSessions == [h \in {} |-> "open"]

\* excel_sample.py before it is run: nothing read, no session, nothing raised.
NoIngestion ==
  [pc |-> "off", sheets |-> <<>>, df |-> <<>>, properties |-> <<>>,
   pending |-> <<>>, db |-> "none", raised |-> "", before |-> <<>>]

\* The API test fixture before a test module is collected: main.py has
\* bound its name SessionLocal to the factory of database.py, which is also
\* the value of database.SessionLocal; there is no in-memory store.
NoFixture ==
  [pc |-> "off", main |-> "original", database |-> "original", memory |-> <<>>]

\* app.py before it is run: nothing is loaded, the inputs have no value and
\* nothing is shown.
NoDash ==
  [pc |-> "off", df |-> <<>>, name_filter |-> <<>>, min_price |-> 0,
   max_price |-> 0, filtered_df |-> <<>>, selected_address |-> None,
   selected_name |-> None, selected |-> None, shown |-> "nothing"]

\* ------------------------------------------------------------------ actions

Idle == [k |-> 0, pages |-> <<>>]

\* The history of store-assigned ids: the largest one handed out so far and
\* whether an id at or below it was handed out again.  It is recorded (on)
\* in the specification of the writes alone.
NoIdHistory == [on |-> FALSE, top |-> 0, reused |-> FALSE]

Assign(a, id) ==
  IF a.on
  THEN [a EXCEPT !.top = IF id > a.top THEN id ELSE a.top,
                 !.reused = a.reused \/ id <= a.top]
  ELSE a

Init ==
  /\ table = <<>>
  /\ hist = <<>>
  /\ last = NoLast
  /\ pager = Idle
  /\ assigned = NoIdHistory
  /\ reqs = NoRequests
  /\ sessions = NoSessions
  /\ ing = NoIngestion
  /\ fixture = NoFixture
  /\ dash = NoDash

\* db.add(Property(**values)); db.commit(): the store assigns the id.
Create(v) ==
  /\ NextId(table) <= MaxId
  /\ LET id == NextId(table)
     IN IF NameFree(table, v)
        THEN /\ table' = InsertRow(table, Property(id, v))
             /\ hist' = Append(hist, [id |-> id, vals |-> v, intact |-> TRUE])
             /\ last' = [NoLast EXCEPT !.op = "create", !.id = id, !.outcome = "ok"]
             /\ assigned' = Assign(assigned, id)
        ELSE /\ UNCHANGED <<table, hist, assigned>>
             /\ last' = [NoLast EXCEPT !.op = "create", !.outcome = "IntegrityError"]
  /\ pager' = Idle
  /\ UNCHANGED others

\* db.add(Property(id=id, **values)); db.commit(), and db.rollback() when
\* the commit raises IntegrityError.
InsertWithId(id, v) ==
  /\ IF PrimaryKeyFree(table, id)
     THEN /\ table' = InsertRow(table, Property(id, v))
          /\ hist' = Append(hist, [id |-> id, vals |-> v, intact |-> TRUE])
          /\ last' = [NoLast EXCEPT !.op = "insert", !.id = id, !.outcome = "ok",
                                    !.before = table]
     ELSE /\ UNCHANGED <<table, hist>>
          /\ last' = [NoLast EXCEPT !.op = "insert", !.id = id,
                                    !.outcome = "IntegrityError", !.before = table]
  /\ pager' = Idle
  /\ UNCHANGED <<assigned, others>>

\* prop.price = ...; db.commit().
UpdatePrice(id) ==
  /\ id \in Ids(table)
  /\ table' = [i \in 1 .. Len(table) |->
                 IF table[i].id = id
                 THEN [table[i] EXCEPT !.price = UpdatedPrice]
                 ELSE table[i]]
  /\ hist' = [i \in 1 .. Len(hist) |->
                IF hist[i].id = id THEN [hist[i] EXCEPT !.intact = FALSE] ELSE hist[i]]
  /\ last' = [NoLast EXCEPT !.op = "update", !.id = id, !.outcome = "ok"]
  /\ pager' = Idle
  /\ UNCHANGED <<assigned, others>>

\* The delete that is never committed: the row stays in the table.
DeleteUncommitted(id) ==
  /\ id \in Ids(table)
  /\ table' = table
  /\ hist' = SelectSeq(hist, LAMBDA h : h.id # id)
  /\ last' = [NoLast EXCEPT !.op = "delete", !.id = id, !.outcome = "ok"]
  /\ pager' = Idle
  /\ UNCHANGED <<assigned, others>>

\* db.delete(prop); db.commit().
Delete(id) ==
  /\ id \in Ids(table)
  /\ table' = SelectSeq(table, LAMBDA r : r.id # id)
  /\ hist' = SelectSeq(hist, LAMBDA h : h.id # id)
  /\ last' = [NoLast EXCEPT !.op = "delete", !.id = id, !.outcome = "ok"]
  /\ pager' = Idle
  /\ UNCHANGED <<assigned, others>>

\* A client's GET /properties/ request.
ReadProperties(skipParam, limitParam) ==
  /\ last' = read_properties(table, skipParam, limitParam)
  /\ pager' = Idle
  /\ UNCHANGED <<table, hist, assigned, others>>

\* A client's GET /properties/{property_id} request.
ReadProperty(property_id) ==
  /\ last' = read_property(table, property_id)
  /\ pager' = Idle
  /\ UNCHANGED <<table, hist, assigned, others>>

\* The paging loop of the pagination tests: the next page of size k is
\* listed, with nothing else done between two pages.
PageFetch(k) ==
  /\ pager.k \in {0, k}
  /\ Len(pager.pages) * k <= Len(table)
  /\ LET res == read_properties(table, Some(Len(pager.pages) * k), Some(k))
     IN /\ last' = res
        /\ pager' = [k |-> k, pages |-> Append(pager.pages, IdSeq(res.rows))]
  /\ UNCHANGED <<table, hist, assigned, others>>

Next ==
  \/ \E v \in Inputs : Create(v)
  \/ \E id \in 1 .. MaxId, v \in Inputs : InsertWithId(id, v)
  \/ \E id \in 1 .. MaxId : UpdatePrice(id)
  \/ \E id \in 1 .. MaxId : Delete(id)
  \/ \E s \in Param(SkipArgs), l \in Param(LimitArgs) : ReadProperties(s, l)
  \/ \E id \in IdArgs : ReadProperty(id)
  \/ \E k \in 1 .. MaxId : PageFetch(k)

Spec == Init /\ [][Next]_vars

\* ------------------------------------------------------------------ requests step by step

storeVars == <<table, hist, last, pager, assigned>>

\* The requests a client sends: the list route without parameters and with
\* skip=1&limit=1, the get route for ids 0 and 1, and either route with a
\* parameter that is no integer.
ListParams == {<<None, None>>, <<Some(1), Some(1)>>}

GetIds == {0, 1}

\* Validation skipped: every parameter reaches the handler.
ValidatesAnything(r) == TRUE

\* skip: int, limit: int, property_id: int: a parameter that is no integer
\* is refused with 422 before the handler is called.
Validates(r) == r.wellFormed

\* One module-level session used by every request.
SharedSession(sess) == 1

\* db = SessionLocal(): a new session, distinct from every open one.
SessionLocal(sess) ==
  CHOOSE n \in 1 .. Cardinality(Requests) + 1 :
    /\ n \notin DOMAIN sess
    /\ \A m \in 1 .. n - 1 : m \in DOMAIN sess

\* Session db is closed.
Closed(sess, db) ==
  IF db \in DOMAIN sess THEN [sess EXCEPT ![db] = "closed"] ELSE sess

\* db.close() placed after the return instead of in finally: it runs on the
\* return path alone.
AfterHandlerNoFinally(r, sess) ==
  IF r.raised = "" THEN Closed(sess, r.db) ELSE sess

\* finally: db.close().  The open sessions when the handler is left.
AfterHandler(r, sess) == Closed(sess, r.db)

\* The query wrapped in a retry: a first failure is tried again.
AfterStoreErrorRetry(r) ==
  IF r.queries = 0
  THEN [r EXCEPT !.queries = @ + 1]
  ELSE [r EXCEPT !.pc = "raised", !.raised = "store", !.queries = @ + 1]

\* try: ... finally: with no except clause: a failed query is not repeated,
\* the exception leaves the handler.
AfterStoreError(r) ==
  [r EXCEPT !.pc = "raised", !.raised = "store", !.queries = @ + 1]

\* The handler's query on table t, lines 14 and 22-24.
AfterQuery(r, t) ==
  IF ~r.wellFormed
  THEN AfterStoreError(r)
  ELSE IF r.kind = "list"
  THEN [r EXCEPT !.pc = "queried", !.queries = @ + 1,
                 !.rows = read_properties(t, r.skip, r.limit).rows]
  ELSE LET found == GetCall(t, r.id)
       IN [r EXCEPT !.pc = IF found = None THEN "raised" ELSE "queried",
                    !.raised = IF found = None THEN "notfound" ELSE "",
                    !.queries = @ + 1, !.rows = found]

\* The conversion loading the records again when it reads their fields:
\* the response shows the table as it is when the response is built.
AfterRespondReloaded(r) ==
  LET rows == IF r.raised # "" THEN r.rows
              ELSE IF r.kind = "list"
              THEN read_properties(table, r.skip, r.limit).rows
              ELSE GetCall(table, r.id)
      resp == IF r.raised = "store"
              THEN [status |-> 500, detail |-> "Internal Server Error", items |-> <<>>]
              ELSE IF r.kind = "list" THEN ListResponse(rows)
              ELSE GetResponse(rows)
  IN [r EXCEPT !.pc = "done", !.status = resp.status, !.detail = resp.detail,
               !.items = resp.items]

\* The response sent once the handler is left: response_model converts the
\* records the handler returned, whose columns were loaded by the query.
AfterRespond(r) ==
  LET resp == IF r.raised = "store"
              THEN [status |-> 500, detail |-> "Internal Server Error", items |-> <<>>]
              ELSE IF r.kind = "list" THEN ListResponse(r.rows)
              ELSE GetResponse(r.rows)
  IN [r EXCEPT !.pc = "done", !.status = resp.status, !.detail = resp.detail,
               !.items = resp.items]

\* Another request has ended in a store failure.
FailureSeen(r) ==
  \E q \in Requests \ {r} : reqs[q].pc = "done" /\ reqs[q].raised = "store"

\* A client sends GET /properties/ with the given parameters.
ReceiveList(r, params, wf) ==
  /\ reqs[r].pc = "idle"
  /\ reqs' = [reqs EXCEPT ![r] = [@ EXCEPT !.pc = "received", !.kind = "list",
                                           !.after = FailureSeen(r),
                                           !.wellFormed = wf,
                                           !.skip = IF wf THEN params[1] ELSE None,
                                           !.limit = IF wf THEN params[2] ELSE None]]
  /\ UNCHANGED <<storeVars, sessions, ing, fixture, dash>>

\* A client sends GET /properties/{property_id}.
ReceiveGet(r, id, wf) ==
  /\ reqs[r].pc = "idle"
  /\ reqs' = [reqs EXCEPT ![r] = [@ EXCEPT !.pc = "received", !.kind = "get",
                                           !.after = FailureSeen(r),
                                           !.wellFormed = wf,
                                           !.id = IF wf THEN id ELSE 0]]
  /\ UNCHANGED <<storeVars, sessions, ing, fixture, dash>>

\* FastAPI refuses the request: 422, the handler is not called.
Reject(r) ==
  /\ reqs[r].pc = "received"
  /\ ~Validates(reqs[r])
  /\ reqs' = [reqs EXCEPT ![r] = [@ EXCEPT !.pc = "done", !.status = 422,
                                           !.detail = "Unprocessable Entity"]]
  /\ UNCHANGED <<storeVars, sessions, ing, fixture, dash>>

\* Lines 12 and 20: db = SessionLocal().  The session connects on its first
\* query, so a store that is down shows in the query.
Open(r) ==
  /\ reqs[r].pc = "received"
  /\ Validates(reqs[r])
  /\ LET db == SessionLocal(sessions)
     IN /\ sessions' = [h \in DOMAIN sessions \cup {db} |->
                           IF h = db THEN "open" ELSE sessions[h]]
        /\ reqs' = [reqs EXCEPT ![r] = [@ EXCEPT !.pc = "opened", !.db = db,
                                                 !.opened = @ + 1]]
  /\ UNCHANGED <<storeVars, ing, fixture, dash>>

\* A handler that writes while it reads: the first row's price is set and
\* committed with the query.
QueryTouching(r) ==
  /\ reqs[r].pc = "opened"
  /\ reqs' = [reqs EXCEPT ![r] = AfterQuery(@, table)]
  /\ table' = [i \in 1 .. Len(table) |->
                 IF i = 1 THEN [table[i] EXCEPT !.price = UpdatedPrice] ELSE table[i]]
  /\ UNCHANGED <<hist, last, pager, assigned, sessions, ing, fixture, dash>>

\* Lines 14 and 22-25: the query succeeds.
Query(r) ==
  /\ reqs[r].pc = "opened"
  /\ reqs' = [reqs EXCEPT ![r] = AfterQuery(@, table)]
  /\ UNCHANGED <<storeVars, sessions, ing, fixture, dash>>

\* Lines 14 and 22: the connection or the query fails.
QueryFail(r) ==
  /\ reqs[r].pc = "opened"
  /\ reqs' = [reqs EXCEPT ![r] = AfterStoreError(@)]
  /\ UNCHANGED <<storeVars, sessions, ing, fixture, dash>>

\* Lines 15-16 and 26-27: the handler is left.
Close(r) ==
  /\ reqs[r].pc \in {"queried", "raised"}
  /\ sessions' = AfterHandler(reqs[r], sessions)
  /\ reqs' = [reqs EXCEPT ![r] = [@ EXCEPT !.pc = "closed"]]
  /\ UNCHANGED <<storeVars, ing, fixture, dash>>

\* The rows are validated against response_model and the response is sent.
Respond(r) ==
  /\ reqs[r].pc = "closed"
  /\ reqs' = [reqs EXCEPT ![r] = AfterRespond(@)]
  /\ UNCHANGED <<storeVars, sessions, ing, fixture, dash>>

\* The client has the response: the slot is free for the next request, and
\* the handler's session object is gone with it.
Retire(r) ==
  /\ reqs[r].pc = "done"
  /\ reqs' = [reqs EXCEPT ![r] = NoRequest]
  /\ sessions' = [h \in DOMAIN sessions \ {reqs[r].db} |-> sessions[h]]
  /\ UNCHANGED <<storeVars, ing, fixture, dash>>

NextReq ==
  \/ \E r \in Requests, p \in ListParams : ReceiveList(r, p, TRUE)
  \/ \E r \in Requests : ReceiveList(r, <<None, None>>, FALSE)
  \/ \E r \in Requests, id \in GetIds : ReceiveGet(r, id, TRUE)
  \/ \E r \in Requests : ReceiveGet(r, 0, FALSE)
  \/ \E r \in Requests : Reject(r)
  \/ \E r \in Requests : Open(r)
  \/ \E r \in Requests : Query(r)
  \/ \E r \in Requests : QueryFail(r)
  \/ \E r \in Requests : Close(r)
  \/ \E r \in Requests : Respond(r)
  \/ \E r \in Requests : Retire(r)
  \/ \E v \in Inputs : Create(v)

SpecReq == Init /\ [][NextReq]_vars

\* ------------------------------------------------------------------ writes alone

\* The direct writes with the history of assigned ids recorded.
InitIds ==
  /\ table = <<>>
  /\ hist = <<>>
  /\ last = NoLast
  /\ pager = Idle
  /\ assigned = [NoIdHistory EXCEPT !.on = TRUE]
  /\ reqs = NoRequests
  /\ sessions = NoSessions
  /\ ing = NoIngestion
  /\ fixture = NoFixture
  /\ dash = NoDash

NextIds ==
  \/ \E v \in Inputs : Create(v)
  \/ \E id \in 1 .. MaxId, v \in Inputs : InsertWithId(id, v)
  \/ \E id \in 1 .. MaxId : UpdatePrice(id)
  \/ \E id \in 1 .. MaxId : Delete(id)

SpecIds == InitIds /\ [][NextIds]_vars

\* ------------------------------------------------------------------ ingestion

\* Largest number of data rows in the spreadsheet.
MaxRows == 3

\* The repeat mark (the ditto glyph U+3003) of the prefecture column.
Marker == "ditto"

\* A cell of the average-price column: a number (in hundredths) or a text.
Num(n) == [num |-> Some(n), text |-> None]

Text(s) == [num |-> None, text |-> Some(s)]

\* Prefecture cells: two names and the repeat mark.
PrefCells == {Some("P1"), Some("P2"), Some(Marker)}

\* Average-price cells: 100.70, -100.70, the text "250" and the text "-".
AvgCells == {Num(10070), Num(0 - 10070), Text("250"), Text("-")}

\* The city of the i-th data row.
City(i) == "c" \o ToString(i)

\* The data rows a spreadsheet may hold; pos is the row's place in the file.
SheetRows(n) ==
  { [i \in 1 .. n |-> [pos |-> i, pref |-> c[i][1], city |-> City(i),
                        avg |-> c[i][2]]] :
      c \in [1 .. n -> PrefCells \X AvgCells] }

\* Rows already in the table when the script runs.
Seeded ==
  { <<>>,
    <<Property(1, [name |-> Some("n1"), address |-> Some("a1"),
                   price |-> Some(8500000)])>> }

\* float(text) of the texts in AvgCells: "250" is 250.0, "-" is no number.
ParseNumber(s) == IF s = "250" THEN Some(25000) ELSE None

\* pd.to_numeric(..., errors="coerce") of one cell: the number, or NaN (None).
to_numeric(cell) ==
  IF cell.num # None THEN cell.num
  ELSE IF cell.text = None THEN None ELSE ParseNumber(cell.text[1])

\* No row is dropped.
dropna_nothing(df) == df

\* df.dropna(subset=[average price]).reset_index(drop=True).
dropna(df) == SelectSeq(df, LAMBDA r : r.avg # None)

\* math.floor instead of int: the fraction is cut toward minus infinity.
AsIntFloor(h) == (h \div 100) * 100

\* astype(int) of a float, in hundredths: the fraction is cut toward zero.
AsInt(h) == IF h >= 0 THEN (h \div 100) * 100 ELSE 0 - (((0 - h) \div 100) * 100)

\* replace(Marker, pd.NA) of one prefecture cell.
ReplaceMarker(pref) == IF pref = Some(Marker) THEN None ELSE pref

\* fillna(method='ffill'): a missing cell takes the value of the cell above
\* it in the frame, itself filled; a missing first cell stays missing.
RECURSIVE ffill(_)
ffill(col) ==
  IF col = <<>> THEN <<>>
  ELSE LET front == ffill(SubSeq(col, 1, Len(col) - 1))
           cell == col[Len(col)]
       IN Append(front, IF cell = None /\ front # <<>>
                        THEN front[Len(front)] ELSE cell)

\* f"{value}" of a prefecture cell: str(pd.NA) is "<NA>".
Format(pref) == IF pref = None THEN "<NA>" ELSE pref[1]

\* models.Property(name=name, address=address, price=price) of one row.
BuildProperty(row) ==
  [name |-> Some(row.city), address |-> Some(Format(row.pref)),
   price |-> row.avg]

\* The INSERTs of one flush: each row gets the next id of the table.
RECURSIVE InsertAll(_, _)
InsertAll(t, props) ==
  IF props = <<>> THEN t
  ELSE InsertAll(InsertRow(t, Property(NextId(t), props[1])), Tail(props))

RECURSIVE Recorded(_, _, _)
Recorded(h, t, props) ==
  IF props = <<>> THEN h
  ELSE Recorded(Append(h, [id |-> NextId(t), vals |-> props[1], intact |-> TRUE]),
                InsertRow(t, Property(NextId(t), props[1])), Tail(props))

\* The spreadsheet has two sheets: the first data row, and the other rows.
InitIngest ==
  /\ table \in Seeded
  /\ hist = [i \in 1 .. Len(table) |->
               [id |-> table[i].id,
                vals |-> [name |-> table[i].name, address |-> table[i].address,
                          price |-> table[i].price],
                intact |-> TRUE]]
  /\ last = NoLast
  /\ pager = Idle
  /\ assigned = NoIdHistory
  /\ reqs = NoRequests
  /\ sessions = NoSessions
  /\ fixture = NoFixture
  /\ dash = NoDash
  /\ \E n \in 1 .. MaxRows : \E rows \in SheetRows(n) :
       ing = [NoIngestion EXCEPT !.pc = "start",
                                 !.sheets = <<SubSeq(rows, 1, 1), SubSeq(rows, 2, n)>>,
                                 !.before = table]

notStore == <<last, pager, assigned, reqs, sessions, fixture, dash>>

RECURSIVE concat(_)
concat(frames) ==
  IF frames = <<>> THEN <<>> ELSE frames[1] \o concat(Tail(frames))

\* pd.read_excel(sheet_name=None) and pd.concat(df_list, ignore_index=True).
Concat ==
  /\ ing.pc = "start"
  /\ ing' = [ing EXCEPT !.pc = "concat", !.df = concat(ing.sheets)]
  /\ UNCHANGED <<table, hist, notStore>>

\* df[average price] = pd.to_numeric(df[average price], errors="coerce").
ToNumeric ==
  /\ ing.pc = "concat"
  /\ ing' = [ing EXCEPT !.pc = "numeric",
               !.df = [i \in 1 .. Len(ing.df) |->
                         [ing.df[i] EXCEPT !.avg = to_numeric(ing.df[i].avg)]]]
  /\ UNCHANGED <<table, hist, notStore>>

DropNa ==
  /\ ing.pc = "numeric"
  /\ ing' = [ing EXCEPT !.pc = "dropped", !.df = dropna(ing.df)]
  /\ UNCHANGED <<table, hist, notStore>>

\* astype(int): a NaN left in the column raises IntCastingNaNError.
AsType ==
  /\ ing.pc = "dropped"
  /\ IF \E i \in 1 .. Len(ing.df) : ing.df[i].avg = None
     THEN ing' = [ing EXCEPT !.pc = "failed", !.raised = "IntCastingNaNError"]
     ELSE ing' = [ing EXCEPT !.pc = "int",
                    !.df = [i \in 1 .. Len(ing.df) |->
                              [ing.df[i] EXCEPT !.avg = Some(AsInt(ing.df[i].avg[1]))]]]
  /\ UNCHANGED <<table, hist, notStore>>

Replace ==
  /\ ing.pc = "int"
  /\ ing' = [ing EXCEPT !.pc = "replaced",
               !.df = [i \in 1 .. Len(ing.df) |->
                         [ing.df[i] EXCEPT !.pref = ReplaceMarker(ing.df[i].pref)]]]
  /\ UNCHANGED <<table, hist, notStore>>

FillNa ==
  /\ ing.pc = "replaced"
  /\ LET filled == ffill([i \in 1 .. Len(ing.df) |-> ing.df[i].pref])
     IN ing' = [ing EXCEPT !.pc = "filled",
                  !.df = [i \in 1 .. Len(ing.df) |->
                            [ing.df[i] EXCEPT !.pref = filled[i]]]]
  /\ UNCHANGED <<table, hist, notStore>>

\* db = SessionLocal(); properties = [].
OpenSession ==
  /\ ing.pc = "filled"
  /\ ing' = [ing EXCEPT !.pc = "loop", !.db = "open"]
  /\ UNCHANGED <<table, hist, notStore>>

\* One turn of the loop over df.iterrows().
BuildRow ==
  /\ ing.pc = "loop"
  /\ Len(ing.properties) < Len(ing.df)
  /\ ing' = [ing EXCEPT !.properties =
               Append(@, BuildProperty(ing.df[Len(ing.properties) + 1]))]
  /\ UNCHANGED <<table, hist, notStore>>

\* db.add_all(properties): the objects are pending in the session.
AddAll ==
  /\ ing.pc = "loop"
  /\ Len(ing.properties) = Len(ing.df)
  /\ ing' = [ing EXCEPT !.pc = "added", !.pending = ing.properties]
  /\ UNCHANGED <<table, hist, notStore>>

\* A commit after the first pending row alone.
CommitFirst ==
  /\ ing.pc = "added"
  /\ ing.pending # <<>>
  /\ table' = InsertAll(table, <<ing.pending[1]>>)
  /\ hist' = Recorded(hist, table, <<ing.pending[1]>>)
  /\ ing' = [ing EXCEPT !.pending = Tail(@)]
  /\ UNCHANGED notStore

\* db.commit(): the pending rows are inserted in one transaction.
Commit ==
  /\ ing.pc = "added"
  /\ table' = InsertAll(table, ing.pending)
  /\ hist' = Recorded(hist, table, ing.pending)
  /\ ing' = [ing EXCEPT !.pc = "committed", !.pending = <<>>]
  /\ UNCHANGED notStore

\* db.commit() raising (the store is locked or gone): nothing is inserted
\* and the script ends there.
CommitFail ==
  /\ ing.pc = "added"
  /\ ing' = [ing EXCEPT !.pc = "failed", !.raised = "OperationalError"]
  /\ UNCHANGED <<table, hist, notStore>>

\* db.close().
CloseSession ==
  /\ ing.pc = "committed"
  /\ ing' = [ing EXCEPT !.pc = "done", !.db = "closed"]
  /\ UNCHANGED <<table, hist, notStore>>

NextIngest ==
  \/ Concat
  \/ ToNumeric
  \/ DropNa
  \/ AsType
  \/ Replace
  \/ FillNa
  \/ OpenSession
  \/ BuildRow
  \/ AddAll
  \/ Commit
  \/ CommitFail
  \/ CloseSession

SpecIngest == InitIngest /\ [][NextIngest]_vars

\* ------------------------------------------------------------------ API test fixture

\* The insertion history of a table whose rows were never updated.
AsHistory(t) ==
  [i \in 1 .. Len(t) |->
     [id |-> t[i].id,
      vals |-> [name |-> t[i].name, address |-> t[i].address,
                price |-> t[i].price],
      intact |-> TRUE]]

\* main.py lines 12 and 20: SessionLocal is a global name of main, bound by
\* "from database import SessionLocal" when main was imported.
HandlerFactory(f) == f.main

\* The rows of the store a session of the given factory reads: the
\* fixture's in-memory store, or the table of the application's database.
StoreOf(factory) == IF factory = "testing" THEN fixture.memory ELSE table

\* The test module is about to be collected; the application's database
\* holds the seed rows or none.
InitFixture ==
  /\ table \in Seeded
  /\ hist = AsHistory(table)
  /\ last = NoLast
  /\ pager = Idle
  /\ assigned = NoIdHistory
  /\ reqs = NoRequests
  /\ sessions = NoSessions
  /\ ing = NoIngestion
  /\ fixture = [NoFixture EXCEPT !.pc = "collect", !.main = "unbound"]
  /\ dash = NoDash

notFixture == <<table, hist, pager, assigned, reqs, sessions, ing, dash>>

\* test_api.py line 15, "from main import app": main.py runs and its line 3
\* binds main's name SessionLocal to the value database.SessionLocal has now.
CollectTests ==
  /\ fixture.pc = "collect"
  /\ fixture' = [fixture EXCEPT !.pc = "collected", !.main = fixture.database]
  /\ UNCHANGED <<last, notFixture>>

\* test_client_with_db up to its yield: a fresh in-memory store, and the
\* attribute SessionLocal of module database set to its factory.
SetUp ==
  /\ fixture.pc = "collected"
  /\ fixture' = [fixture EXCEPT !.pc = "ready", !.database = "testing",
                                !.memory = <<>>]
  /\ UNCHANGED <<last, notFixture>>

\* The test commits a record through the fixture's session.
TestCommit(v) ==
  /\ fixture.pc = "ready"
  /\ NextId(fixture.memory) <= MaxId
  /\ fixture' = [fixture EXCEPT !.memory =
                   InsertRow(@, Property(NextId(fixture.memory), v))]
  /\ UNCHANGED <<last, notFixture>>

\* client.get("/properties/?skip=&limit=").
ClientList(skipParam, limitParam) ==
  /\ fixture.pc = "ready"
  /\ last' = read_properties(StoreOf(HandlerFactory(fixture)), skipParam, limitParam)
  /\ UNCHANGED <<fixture, notFixture>>

\* client.get("/properties/{property_id}").
ClientGet(property_id) ==
  /\ fixture.pc = "ready"
  /\ last' = read_property(StoreOf(HandlerFactory(fixture)), property_id)
  /\ UNCHANGED <<fixture, notFixture>>

\* test_client_with_db after its yield: the attribute is set back and the
\* in-memory store is dropped.
TearDown ==
  /\ fixture.pc = "ready"
  /\ fixture' = [fixture EXCEPT !.pc = "collected", !.database = "original",
                                !.memory = <<>>]
  /\ UNCHANGED <<last, notFixture>>

NextFixture ==
  \/ CollectTests
  \/ SetUp
  \/ \E v \in Inputs : TestCommit(v)
  \/ \E s \in Param(SkipArgs), l \in Param(LimitArgs) : ClientList(s, l)
  \/ \E id \in IdArgs : ClientGet(id)
  \/ TearDown

SpecFixture == InitFixture /\ [][NextFixture]_vars

\* ------------------------------------------------------------------ dashboard

\* The records the properties table of the dashboard's database may hold.
\* A name is the sequence of its characters; prices are in hundredths:
\* 100.00, 100.50, -1.00, 50.00 and NULL.
DashInputs ==
  { [name |-> Some(<<"A", "b">>), address |-> Some("a1"), price |-> Some(10000)],
    [name |-> Some(<<"A", "b">>), address |-> Some("a2"), price |-> Some(10050)],
    [name |-> Some(<<"b">>), address |-> Some("a1"), price |-> Some(0 - 100)],
    [name |-> None, address |-> Some("a1"), price |-> Some(5000)],
    [name |-> Some(<<"b">>), address |-> None, price |-> Some(5000)],
    [name |-> Some(<<"b">>), address |-> Some("a2"), price |-> None] }

\* The tables of n different records, with the ids 1 .. n.
DashTables(n) ==
  { [i \in 1 .. n |-> Property(i, c[i])] :
      c \in {d \in [1 .. n -> DashInputs] :
               \A i, j \in 1 .. n : i # j => d[i] # d[j]} }

\* What the user may type into "search by name": nothing, "a", and ".".
NameFilters == {<<>>, <<"a">>, <<".">>}

\* What the user may set as lowest price: nothing (None) or -1.
MinPrices == {None, Some(0 - 100)}

\* What the user may set as highest price: nothing (None) or 100.
MaxPrices == {None, Some(10000)}

\* df["price"].max(): the largest price that is not NULL, NaN (None) when
\* there is none, as for an empty table.
PriceMax(df) ==
  LET prices == {df[i].price[1] : i \in {k \in 1 .. Len(df) : df[k].price # None}}
  IN IF prices = {} THEN None
     ELSE Some(CHOOSE p \in prices : \A q \in prices : q <= p)

\* int(x) of a float, in hundredths: the fraction is cut toward zero.
ToInt(h) == IF h >= 0 THEN (h \div 100) * 100 ELSE 0 - (((0 - h) \div 100) * 100)

\* Lines 36-39: (df["price"] >= min_price) & (df["price"] <= max_price);
\* a comparison with a NULL price is False.
InPriceRange(row, lo, hi) ==
  row.price # None /\ row.price[1] >= lo /\ row.price[1] <= hi

\* re.IGNORECASE on the letters of the model.
Lower(c) == IF c = "A" THEN "a" ELSE IF c = "B" THEN "b" ELSE c

\* One character of the pattern against one of the name: "." is any
\* character, a letter is itself in either case.
MatchChar(p, c) == p = "." \/ Lower(p) = Lower(c)

\* Series.str.contains(pat, case=False, na=False): regex=True is the
\* default, so pat is searched as a regular expression; a NULL name is False.
StrContains(name, pat) ==
  /\ name # None
  /\ \E off \in 0 .. (Len(name[1]) - Len(pat)) :
       \A i \in 1 .. Len(pat) : MatchChar(pat[i], name[1][off + i])

\* Series == value, element by element: nothing equals None.
CellEquals(cell, value) == value # None /\ cell = value

\* Series.unique(): the values in the order of their first appearance,
\* NULL among them.
RECURSIVE Unique(_)
Unique(col) ==
  IF col = <<>> THEN <<>>
  ELSE LET front == Unique(SubSeq(col, 1, Len(col) - 1))
           cell == col[Len(col)]
       IN IF \E i \in 1 .. Len(front) : front[i] = cell
          THEN front ELSE Append(front, cell)

\* st.selectbox(label, options): one of the options, None when there is none.
Selectable(options) ==
  IF options = <<>> THEN {None} ELSE {options[i] : i \in 1 .. Len(options)}

\* The script is about to run on a table of the database.
InitDash ==
  /\ \E n \in 0 .. MaxId : table \in DashTables(n)
  /\ hist = AsHistory(table)
  /\ last = NoLast
  /\ pager = Idle
  /\ assigned = NoIdHistory
  /\ reqs = NoRequests
  /\ sessions = NoSessions
  /\ ing = NoIngestion
  /\ fixture = NoFixture
  /\ dash = [NoDash EXCEPT !.pc = "start"]

notDash ==
  <<table, hist, last, pager, assigned, reqs, sessions, ing, fixture>>

\* Lines 10-14 and 23-24: get_data() reads the whole table.
Load ==
  /\ dash.pc = "start"
  /\ dash' = [dash EXCEPT !.pc = "loaded", !.df = table]
  /\ UNCHANGED notDash

\* Lines 25-27: get_data() raises; st.error and st.stop().
LoadFail ==
  /\ dash.pc = "start"
  /\ dash' = [dash EXCEPT !.pc = "stopped", !.shown = "error"]
  /\ UNCHANGED notDash

\* Lines 31-33: the three inputs.  The default of the highest price,
\* int(df["price"].max()), is computed on every run; int(NaN) raises
\* ValueError outside the try of line 23.
ReadInputs(typed, lowest, highest) ==
  /\ dash.pc = "loaded"
  /\ IF PriceMax(dash.df) = None
     THEN dash' = [dash EXCEPT !.pc = "stopped", !.shown = "exception"]
     ELSE dash' = [dash EXCEPT
                     !.pc = "inputs",
                     !.name_filter = typed,
                     !.min_price = IF lowest = None THEN 0 ELSE lowest[1],
                     !.max_price = IF highest = None
                                   THEN ToInt(PriceMax(dash.df)[1])
                                   ELSE highest[1]]
  /\ UNCHANGED notDash

\* Lines 36-42.
Filter ==
  /\ dash.pc = "inputs"
  /\ LET priced == SelectSeq(dash.df, LAMBDA row :
                     InPriceRange(row, dash.min_price, dash.max_price))
     IN dash' = [dash EXCEPT
                   !.pc = "filtered",
                   !.filtered_df =
                     IF dash.name_filter # <<>>
                     THEN SelectSeq(priced, LAMBDA row :
                            StrContains(row.name, dash.name_filter))
                     ELSE priced]
  /\ UNCHANGED notDash

\* Lines 49-56: the two select boxes and the detail view.  .iloc[0] of no
\* row raises IndexError.
Detail ==
  /\ dash.pc = "filtered"
  /\ dash.filtered_df # <<>>
  /\ LET f == dash.filtered_df
     IN \E a \in Selectable(Unique([i \in 1 .. Len(f) |-> f[i].address])) :
          LET under == SelectSeq(f, LAMBDA row : CellEquals(row.address, a))
          IN \E n \in Selectable(Unique([i \in 1 .. Len(under) |-> under[i].name])) :
               LET named == SelectSeq(f, LAMBDA row : CellEquals(row.name, n))
               IN dash' = [dash EXCEPT
                             !.pc = "done",
                             !.selected_address = a,
                             !.selected_name = n,
                             !.selected = IF named = <<>> THEN None
                                          ELSE Some(named[1]),
                             !.shown = IF named = <<>> THEN "exception"
                                       ELSE "detail"]
  /\ UNCHANGED notDash

\* Lines 57-58: st.warning, no record matches.
Warn ==
  /\ dash.pc = "filtered"
  /\ dash.filtered_df = <<>>
  /\ dash' = [dash EXCEPT !.pc = "done", !.shown = "warning"]
  /\ UNCHANGED notDash

NextDash ==
  \/ Load
  \/ LoadFail
  \/ \E typed \in NameFilters, lowest \in MinPrices, highest \in MaxPrices :
       ReadInputs(typed, lowest, highest)
  \/ Filter
  \/ Detail
  \/ Warn

SpecDash == InitDash /\ [][NextDash]_vars

\* ------------------------------------------------------------------ helpers of the properties

Min(a, b) == IF a < b THEN a ELSE b

Max(a, b) == IF a < b THEN b ELSE a

\* Positions skip+1 .. min(Len(s), skip+limit) of s.
Slice(s, skip, limit) ==
  IF skip >= Len(s) \/ limit = 0 THEN <<>>
  ELSE SubSeq(s, skip + 1, Min(Len(s), skip + limit))

RECURSIVE Ascend(_)
\* The elements of a set of integers, smallest first.
Ascend(S) ==
  IF S = {} THEN <<>>
  ELSE LET m == CHOOSE x \in S : \A y \in S : x <= y
       IN <<m>> \o Ascend(S \ {m})

RECURSIVE Flatten(_)
Flatten(ss) == IF ss = <<>> THEN <<>> ELSE Head(ss) \o Flatten(Tail(ss))

NoDuplicate(s) == \A i, j \in 1 .. Len(s) : i # j => s[i] # s[j]

IsAscending(s) == \A i, j \in 1 .. Len(s) : i < j => s[i] < s[j]

\* The last operation was a list call with skip >= 0 and limit >= 0.
ListedNonNegative ==
  last.op = "read_properties" /\ last.skip >= 0 /\ last.limit >= 0

\* ------------------------------------------------------------------ C1

\* C1: offset consistency. A list call with skip, limit >= 0 returns at most
\* limit records, and its i-th record is record skip+i of list(0, skip+limit)
\* on the same store.
C1_OffsetConsistency ==
  ListedNonNegative =>
    LET whole == read_properties(table, Some(0), Some(last.skip + last.limit)).rows
    IN /\ Len(last.rows) <= last.limit
       /\ \A i \in 1 .. Len(last.rows) :
            /\ last.skip + i <= Len(whole)
            /\ last.rows[i] = whole[last.skip + i]

C1_Witness ==
  /\ ListedNonNegative
  /\ last.skip > 0
  /\ Len(last.rows) > 0
  /\ Len(table) > Len(last.rows)

\* ------------------------------------------------------------------ C2

\* C2 as claimed: list returns the records in insertion order, the records at
\* insertion positions skip+1 .. min(n, skip+limit).
C2_InsertionOrder ==
  ListedNonNegative =>
    IdSeq(last.rows) = Slice(IdSeq(hist), last.skip, last.limit)

\* C2 amended: list returns the records in ascending primary-key order, the
\* records at positions skip+1 .. min(n, skip+limit) of the store's ids sorted;
\* that is insertion order whenever every record was inserted with an id above
\* the ids then stored, as every store-assigned id is; and the same call made
\* again with no write in between returns the same rows.
C2_PrimaryKeyOrder ==
  /\ ListedNonNegative =>
       /\ IdSeq(last.rows)
            = Slice(Ascend({hist[i].id : i \in 1 .. Len(hist)}), last.skip, last.limit)
       /\ IsAscending(IdSeq(hist)) =>
            IdSeq(last.rows) = Slice(IdSeq(hist), last.skip, last.limit)
       /\ read_properties(table, Some(last.skip), Some(last.limit)).rows = last.rows
  /\ last.op = "create" =>
       /\ hist # <<>>
       /\ hist[Len(hist)].id = last.id
       /\ \A i \in 1 .. Len(hist) - 1 : hist[i].id < last.id

C2_Witness ==
  /\ ListedNonNegative
  /\ ~IsAscending(IdSeq(hist))
  /\ last.skip = 1
  /\ Len(last.rows) = 1
  /\ Len(hist) = 2

\* ------------------------------------------------------------------ C3

\* C3: a list call with skip, limit >= 0 on a store of n records returns
\* exactly min(limit, max(0, n - skip)) records.
C3_PageLength ==
  ListedNonNegative =>
    Len(last.rows) = Min(last.limit, Max(0, Len(hist) - last.skip))

C3_Witness ==
  /\ ListedNonNegative
  /\ Len(hist) > 0
  /\ last.skip >= Len(hist)
  /\ last.limit > Len(hist)
  /\ last.rows = <<>>

\* ------------------------------------------------------------------ C4

\* C4: a list call with limit = 0 returns no record, whatever the skip and the
\* store.
C4_LimitZeroEmpty ==
  (last.op = "read_properties" /\ last.limit = 0) =>
    /\ last.rows = <<>>
    /\ last.items = <<>>

C4_Witness ==
  /\ last.op = "read_properties"
  /\ last.limit = 0
  /\ last.skip < 0
  /\ Len(table) > 0

\* ------------------------------------------------------------------ C5

\* C5: the pages list(0, k), list(k, k), ... fetched with no write in between
\* share no record id, hold j*k ids or all of them after j pages, and once they
\* reach the end of the table they hold every record of the store exactly once.
C5_PagesPartition ==
  pager.k > 0 =>
    LET flat == Flatten(pager.pages)
        reached == Len(pager.pages) * pager.k
    IN /\ NoDuplicate(flat)
       /\ {flat[i] : i \in 1 .. Len(flat)} \subseteq {hist[i].id : i \in 1 .. Len(hist)}
       /\ Len(flat) = Min(reached, Len(hist))
       /\ reached >= Len(hist) =>
            {flat[i] : i \in 1 .. Len(flat)} = {hist[i].id : i \in 1 .. Len(hist)}

C5_Witness ==
  /\ pager.k > 0
  /\ Len(pager.pages) >= 2
  /\ Len(pager.pages[1]) > 0
  /\ Len(pager.pages[2]) > 0
  /\ Len(pager.pages) * pager.k >= Len(hist)

\* ------------------------------------------------------------------ C6

\* C6: GET /properties/ without query parameters responds 200 with a JSON
\* array of the first min(10, n) records of the store, each with the fields
\* id, name, address, price.
C6_DefaultList ==
  (last.op = "read_properties" /\ last.bare) =>
    /\ last.status = 200
    /\ last.shape = "array"
    /\ last.items = JsonSeq(Slice(table, 0, 10))

\* ------------------------------------------------------------------ C7

\* C7: for an id that no record of the store has, 0 and negative ids included,
\* get returns absent and GET /properties/{id} responds 404 with the detail
\* "Property not found".
C7_AbsentIs404 ==
  (last.op = "read_property" /\ \A i \in 1 .. Len(hist) : hist[i].id # last.id) =>
    /\ last.rows = None
    /\ last.status = 404
    /\ last.shape = "error"
    /\ last.detail = "Property not found"

C7_Witness ==
  /\ last.op = "read_property"
  /\ last.id <= 0
  /\ last.status = 404
  /\ Len(table) > 0

\* ------------------------------------------------------------------ C8

\* C8: for every record of the store, records with an absent name, address or
\* price included, GET /properties/{id} responds 200 with a JSON object of
\* that record's id, name, address and price.
C8_PresentIs200 ==
  (last.op = "read_property" /\ \E i \in 1 .. Len(table) : table[i].id = last.id) =>
    /\ last.status = 200
    /\ last.shape = "object"
    /\ \E i \in 1 .. Len(table) :
         /\ table[i].id = last.id
         /\ last.items = <<ToJson(table[i])>>

\* ------------------------------------------------------------------ C9

\* C9: a record inserted with given (name, address, price), not updated or
\* deleted since, is returned by get(id) and by GET /properties/{id} with
\* exactly those values and its id.
C9_RoundTrip ==
  \A i \in 1 .. Len(hist) :
    (last.op = "read_property" /\ hist[i].id = last.id /\ hist[i].intact) =>
      /\ last.rows = Some(Property(last.id, hist[i].vals))
      /\ last.status = 200
      /\ last.items = <<ToJson(Property(last.id, hist[i].vals))>>

\* ------------------------------------------------------------------ C10

\* C10: no two records of the store have the same id; an insert that gives an
\* id already present ends with an integrity error and leaves the store as it
\* was before the attempt.
C10_UniqueIds ==
  /\ \A i, j \in 1 .. Len(table) : i # j => table[i].id # table[j].id
  /\ (last.op = "insert" /\ last.id \in Ids(last.before)) =>
       /\ last.outcome = "IntegrityError"
       /\ table = last.before

C10_Witness ==
  /\ last.op = "insert"
  /\ last.outcome = "IntegrityError"
  /\ Len(table) > 0

\* ------------------------------------------------------------------ C11

\* A step in which the store assigns an id to a new row.
CreateStep == last'.op = "create" /\ last'.outcome = "ok" /\ table' # table

\* C11 as claimed: each newly assigned id is greater than every id the store
\* assigned before, also after the record with the highest id was deleted.
C11_NeverReused ==
  [][CreateStep => last'.id > assigned.top]_vars

\* C11 amended: each newly assigned id is greater than every id in the store
\* at that time, and greater than every id assigned before as long as the
\* record with the highest assigned id is still stored.
C11_AboveStoredIds ==
  [][CreateStep =>
       /\ \A i \in Ids(table) : last'.id > i
       /\ assigned.top \in Ids(table) => last'.id > assigned.top
       /\ last'.id \in Ids(table')]_vars

C11_Witness ==
  /\ last.op = "create"
  /\ assigned.reused
  /\ last.id = assigned.top

\* ------------------------------------------------------------------ C12

\* C12: creating a record whose name is already stored succeeds; the two
\* records have different ids, and get on each id returns that record with
\* the address and price it was given.
C12_SameNameAllowed ==
  /\ last.op = "create" => last.outcome = "ok"
  /\ \A i, j \in 1 .. Len(hist) :
       (i # j /\ hist[i].vals.name = hist[j].vals.name) =>
         /\ hist[i].id # hist[j].id
         /\ GetCall(table, hist[i].id) # None
         /\ GetCall(table, hist[i].id)[1].name = hist[i].vals.name
         /\ GetCall(table, hist[i].id)[1].address = hist[i].vals.address
         /\ hist[i].intact => GetCall(table, hist[i].id)[1].price = hist[i].vals.price

C12_Witness ==
  /\ last.op = "create"
  /\ Len(hist) = 2
  /\ hist[1].vals.name = hist[2].vals.name
  /\ hist[1].vals.name # None
  /\ hist[1].vals.address # hist[2].vals.address

\* ------------------------------------------------------------------ helpers of the request properties

InHandler(r) == reqs[r].pc \in {"opened", "queried", "raised"}

LeftHandler(r) == reqs[r].pc \in {"closed", "done"} /\ reqs[r].opened > 0

IsOpen(db) == db \in DOMAIN sessions /\ sessions[db] = "open"

IsClosed(db) == db \in DOMAIN sessions /\ sessions[db] = "closed"

\* ------------------------------------------------------------------ C13

\* C13: no step of a GET /properties/ or GET /properties/{id} request,
\* whatever its parameters and outcome, changes the records of the store.
C13_ReadOnly ==
  [][reqs' # reqs => table' = table]_vars

C13_Witness ==
  /\ table # <<>>
  /\ reqs["r1"].pc = "done"
  /\ reqs["r1"].status = 200
  /\ reqs["r2"].pc = "done"
  /\ reqs["r2"].status \in {404, 422}

\* ------------------------------------------------------------------ C14

\* C14: a request in its handler has opened exactly one session, which is
\* open; once the handler is left, by return, by the 404 or by a failed
\* query, that session is closed; with no request in a handler no session is
\* open.
C14_SessionReleased ==
  /\ \A r \in Requests :
       /\ InHandler(r) => reqs[r].opened = 1 /\ IsOpen(reqs[r].db)
       /\ (reqs[r].pc \in {"closed", "done"} /\ reqs[r].wellFormed) =>
            reqs[r].opened = 1 /\ IsClosed(reqs[r].db)
  /\ (\A r \in Requests : ~InHandler(r)) =>
       \A h \in DOMAIN sessions : sessions[h] = "closed"

C14_Witness ==
  /\ reqs["r1"].pc = "done"
  /\ reqs["r1"].raised = "store"
  /\ IsClosed(reqs["r1"].db)
  /\ reqs["r2"].pc = "closed"
  /\ reqs["r2"].raised = "notfound"
  /\ IsClosed(reqs["r2"].db)

\* ------------------------------------------------------------------ C15

\* C15: two requests in their handlers never hold the same session, and the
\* session of a request in its handler is open whatever the other requests
\* have closed.
C15_SessionsNotShared ==
  \A r, q \in Requests :
    (r # q /\ InHandler(r)) =>
      /\ IsOpen(reqs[r].db)
      /\ reqs[q].pc # "idle" => reqs[q].db # reqs[r].db

C15_Witness ==
  /\ reqs["r1"].pc = "closed"
  /\ IsClosed(reqs["r1"].db)
  /\ reqs["r2"].pc = "queried"
  /\ IsOpen(reqs["r2"].db)

\* ------------------------------------------------------------------ C16

\* C16: a request with a parameter that is no integer opens no session and
\* runs no query, and ends in the client error 422.
C16_MalformedRejected ==
  \A r \in Requests :
    (reqs[r].pc # "idle" /\ ~reqs[r].wellFormed) =>
      /\ reqs[r].pc \in {"received", "done"}
      /\ reqs[r].opened = 0
      /\ reqs[r].queries = 0
      /\ reqs[r].db = 0
      /\ reqs[r].pc = "done" => reqs[r].status = 422

C16_Witness ==
  /\ reqs["r1"].pc = "done"
  /\ ~reqs["r1"].wellFormed
  /\ reqs["r1"].kind = "get"
  /\ reqs["r2"].pc = "done"
  /\ ~reqs["r2"].wellFormed
  /\ reqs["r2"].kind = "list"

\* ------------------------------------------------------------------ C17

\* C17: a request runs at most one query; when its query fails there is no
\* second attempt and it ends 500, neither 200 nor 404; a request that came
\* after another one's store failure ends as its own rows say: 404 for no
\* row, 500 only for a row the response schema refuses, else 200.
C17_FailureNotRetried ==
  \A r \in Requests :
    /\ reqs[r].queries <= 1
    /\ reqs[r].raised = "store" =>
         /\ reqs[r].queries = 1
         /\ reqs[r].rows = <<>>
         /\ reqs[r].pc = "done" => reqs[r].status = 500
    /\ (reqs[r].pc = "done" /\ reqs[r].wellFormed /\ reqs[r].raised # "store") =>
         /\ reqs[r].raised = "notfound" <=> reqs[r].status = 404
         /\ reqs[r].status = 500 <=>
              \E i \in 1 .. Len(reqs[r].rows) : ~SchemaAccepts(reqs[r].rows[i])
         /\ reqs[r].status \in {200, 404, 500}

C17_Witness ==
  /\ reqs["r1"].pc = "done"
  /\ reqs["r1"].raised = "store"
  /\ reqs["r2"].pc = "done"
  /\ reqs["r2"].after
  /\ reqs["r2"].status = 200
  /\ reqs["r2"].rows # <<>>

\* ------------------------------------------------------------------ helpers of the ingestion properties

\* The data rows of all sheets, in the order of the file.
InputRows == ing.sheets[1] \o ing.sheets[2]

\* The cell is a number or a text that reads as a number.
IsNumber(cell) == cell.num # None \/ cell.text = Some("250")

NumberOf(cell) == IF cell.num # None THEN cell.num[1] ELSE 25000

\* The whole number (in hundredths) between zero and h that is nearest to h.
IntegerPart(h) ==
  CHOOSE m \in {100 * k : k \in (0 - 300) .. 300} :
    IF h >= 0 THEN m <= h /\ h < m + 100 ELSE m >= h /\ h > m - 100

\* The input rows whose average price is a number.
NumericRows == SelectSeq(InputRows, LAMBDA r : IsNumber(r.avg))

LoopReached == ing.pc \in {"loop", "added", "committed", "done"}

LoopDone ==
  \/ ing.pc \in {"added", "committed", "done"}
  \/ ing.pc = "failed" /\ ing.raised = "OperationalError"

\* The prefecture name of the nearest row at or before place p of the file
\* that carries a name and not the repeat mark.
HasExplicit(p) == \E q \in 1 .. p : InputRows[q].pref # Some(Marker)

NearestExplicit(p) ==
  LET q == CHOOSE q \in 1 .. p :
             /\ InputRows[q].pref # Some(Marker)
             /\ \A k \in (q + 1) .. p : InputRows[k].pref = Some(Marker)
  IN InputRows[q].pref[1]

\* ------------------------------------------------------------------ C18

C19_InheritsNearestExplicit ==
  LoopDone =>
    \A i \in 1 .. Len(ing.properties) :
      LET row == NumericRows[i]
      IN (i <= Len(NumericRows) /\ row.pref = Some(Marker) /\ HasExplicit(row.pos))
           => ing.properties[i].address = Some(NearestExplicit(row.pos))

\* ------------------------------------------------------------------ C20

\* C20: until the commit the table is as it was before the run; after it the
\* table is the rows of before followed by one row for every Property of the
\* run, in order and with ascending new ids: never a part of them.
C20_NoneOrAll ==
  /\ ing.pc \notin {"committed", "done"} => table = ing.before
  /\ ing.pc \in {"committed", "done"} =>
       /\ Len(table) = Len(ing.before) + Len(ing.properties)
       /\ SubSeq(table, 1, Len(ing.before)) = ing.before
       /\ \A i \in 1 .. Len(ing.properties) :
            LET r == table[Len(ing.before) + i]
                p == ing.properties[i]
            IN r.name = p.name /\ r.address = p.address /\ r.price = p.price
       /\ IsAscending(IdSeq(table))

\* A run on a table that held a row commits two rows or more.
C20_Witness ==
  /\ ing.pc = "committed"
  /\ ing.before # <<>>
  /\ Len(ing.properties) >= 2
  /\ Len(table) = Len(ing.before) + Len(ing.properties)

\* ------------------------------------------------------------------ C23

\* The rows a list without offset and cap returns.
ListedAll(t) == get_properties(t, 0, 0 - 1)

\* C23: after a committed update of a record's price, get(id) returns the
\* new price under the same id with the other fields as they were; after a
\* committed delete, get(id) is absent and list does not contain the id,
\* while every other record is still listed and got as it was; a later GET
\* of an updated record that is still stored finds the new price.
C23_WritesVisible ==
  [][ /\ last'.op = "update" =>
           LET was == get_property(table, last'.id)
               now == get_property(table', last'.id)
           IN /\ now # None
              /\ now[1] = [was[1] EXCEPT !.price = UpdatedPrice]
              /\ Len(ListedAll(table')) = Len(ListedAll(table))
      /\ last'.op = "delete" =>
           /\ get_property(table', last'.id) = None
           /\ last'.id \notin Ids(ListedAll(table'))
           /\ \A i \in 1 .. Len(table) :
                table[i].id # last'.id =>
                  /\ table[i].id \in Ids(ListedAll(table'))
                  /\ get_property(table', table[i].id) = Some(table[i])
      /\ last'.op = "read_property" =>
           \A i \in 1 .. Len(hist) :
             (hist[i].id = last'.id /\ ~hist[i].intact) =>
               /\ last'.rows # None
               /\ last'.rows[1].id = last'.id
               /\ last'.rows[1].price = UpdatedPrice
               /\ last'.rows[1].name = hist[i].vals.name
    ]_vars

\* Record 1 was updated and record 2 has just been deleted.
C23_Witness ==
  /\ last.op = "delete"
  /\ last.id = 2
  /\ Len(table) = 1
  /\ table[1].id = 1
  /\ table[1].price = UpdatedPrice
  /\ \E i \in 1 .. Len(hist) : hist[i].id = 1 /\ ~hist[i].intact

\* ------------------------------------------------------------------ C24

Abs(n) == IF n < 0 THEN 0 - n ELSE n

\* The rows of the table the run inserted.
Ingested == SubSeq(table, Len(ing.before) + 1, Len(table))

\* C24: the price stored for a retained row is a whole number, lies less
\* than 1 from the row's average price, and is not larger than it in
\* absolute value (prices are in hundredths).
C24_PriceTruncated ==
  ing.pc \in {"committed", "done"} =>
    /\ Len(Ingested) = Len(NumericRows)
    /\ \A i \in 1 .. Len(Ingested) :
         LET avg == NumberOf(NumericRows[i].avg)
         IN /\ Ingested[i].price # None
            /\ LET price == Ingested[i].price[1]
               IN /\ price % 100 = 0
                  /\ Abs(avg - price) < 100
                  /\ Abs(price) <= Abs(avg)

\* An average price of -100.70 is stored as -100, one of 100.70 as 100.
C24_Witness ==
  /\ ing.pc = "committed"
  /\ Len(Ingested) = 2
  /\ NumericRows[1].avg = Num(0 - 10070)
  /\ Ingested[1].price = Some(0 - 10000)
  /\ NumericRows[2].avg = Num(10070)
  /\ Ingested[2].price = Some(10000)

\* ------------------------------------------------------------------ C26

\* The prefecture names written in the input.
ExplicitNames ==
  {InputRows[q].pref : q \in {k \in 1 .. Len(InputRows) :
                               InputRows[k].pref # Some(Marker)}}

\* C26: every address emitted by the run is a prefecture name written in the
\* input: none is missing, the repeat mark or the text of a missing value,
\* also when the first retained row carries the repeat mark.
C26_AddressIsExplicitName ==
  LoopReached \/ LoopDone =>
    \A i \in 1 .. Len(ing.properties) :
      ing.properties[i].address \in ExplicitNames

\* ------------------------------------------------------------------ C30

\* The rows of request q as a sequence (the get route returns one or none).
RowsOf(q) ==
  IF q.kind = "list" THEN q.rows
  ELSE IF q.rows = None THEN <<>> ELSE <<q.rows[1]>>

\* The rows the request's query finds in table t.
Asked(q, t) ==
  IF q.kind = "list"
  THEN get_properties(t, IF q.skip = None THEN DefaultSkip ELSE q.skip[1],
                         IF q.limit = None THEN DefaultLimit ELSE q.limit[1])
  ELSE LET hit == SelectSeq(t, LAMBDA row : row.id = q.id)
       IN IF hit = <<>> THEN <<>> ELSE <<hit[1]>>

\* C30: the records are read from the table while the request's session is
\* open; they are not read again once the session is closed; the response
\* is built when the session is closed, and a 200 response carries the id,
\* name, address and price of exactly the records read by the query, whatever
\* was written to the table since.
C30_ResponseFromQuery ==
  [][ \A r \in Requests :
        /\ (reqs[r].pc = "opened" /\ reqs'[r].pc = "queried") =>
             /\ IsOpen(reqs[r].db)
             /\ RowsOf(reqs'[r]) = Asked(reqs[r], table)
        /\ (reqs[r].pc \in {"queried", "closed"} /\ reqs'[r].pc # "idle") =>
             reqs'[r].rows = reqs[r].rows
        /\ (reqs[r].pc = "closed" /\ reqs'[r].pc = "done") =>
             /\ IsClosed(reqs[r].db)
             /\ reqs'[r].status = 200 =>
                  /\ Len(reqs'[r].items) = Len(RowsOf(reqs[r]))
                  /\ \A i \in 1 .. Len(reqs'[r].items) :
                       LET item == reqs'[r].items[i]
                           row == RowsOf(reqs[r])[i]
                       IN /\ item.id = row.id
                          /\ item.name = row.name
                          /\ item.address = row.address
                          /\ item.price = row.price
    ]_vars

\* A list answered 200 with the one record its query read, from a closed
\* session, while the table has a second record by now.
C30_Witness ==
  \E r \in Requests :
    /\ reqs[r].pc = "done"
    /\ reqs[r].kind = "list"
    /\ reqs[r].status = 200
    /\ Len(reqs[r].items) = 1
    /\ reqs[r].skip = None
    /\ Len(table) = 2
    /\ IsClosed(reqs[r].db)

\* ------------------------------------------------------------------ C25

\* C25: while the fixture is set up, a request made through the test client
\* is answered from the fixture's in-memory store: GET /properties/ returns
\* the records committed through the fixture's session, and
\* GET /properties/{id} returns the committed record with that id.
C25_ServedFromFixtureStore ==
  [][ (fixture.pc = "ready" /\ fixture' = fixture) =>
        /\ last'.op = "read_properties" =>
             last'.rows = get_properties(fixture.memory, last'.skip, last'.limit)
        /\ last'.op = "read_property" =>
             last'.rows = get_property(fixture.memory, last'.id)
    ]_vars

\* ------------------------------------------------------------------ helpers of the dashboard properties

\* name holds text as a substring, letters compared without case.
Contains(name, text) ==
  \E off \in 0 .. (Len(name) - Len(text)) :
    \A i \in 1 .. Len(text) : Lower(name[off + i]) = Lower(text[i])

Filtered == dash.pc \in {"filtered", "done"}

\* ------------------------------------------------------------------ C21

\* C21: the filtered result is exactly the records of the table, in table
\* order, with min_price <= price <= max_price whose name contains the name
\* filter as a substring without regard to case; an empty name filter puts
\* no condition on the name.
C21_FilterIsRangeAndSubstring ==
  Filtered =>
    dash.filtered_df =
      SelectSeq(dash.df, LAMBDA row :
        /\ row.price # None
        /\ dash.min_price <= row.price[1]
        /\ row.price[1] <= dash.max_price
        /\ \/ dash.name_filter = <<>>
           \/ row.name # None /\ Contains(row.name[1], dash.name_filter))

\* ------------------------------------------------------------------ C22

\* C22: the record of the detail view has the selected address and the
\* selected name.
C22_DetailHasSelectedAddress ==
  dash.shown = "detail" =>
    /\ dash.selected # None
    /\ dash.selected[1].address = dash.selected_address
    /\ dash.selected[1].name = dash.selected_name

\* ------------------------------------------------------------------ C27

\* C27: with no name filter, lowest price 0 and highest price the integer of
\* the table's largest price, the filtered result is the whole table.
C27_DefaultsShowAll ==
  ( /\ Filtered
    /\ dash.name_filter = <<>>
    /\ dash.min_price = 0
    /\ PriceMax(dash.df) # None
    /\ dash.max_price = ToInt(PriceMax(dash.df)[1]) )
  => dash.filtered_df = dash.df

\* ------------------------------------------------------------------ C28

\* C28: when the script has run through with a filtered result that is not
\* empty, the detail view shows one record, which is one of the filtered
\* result; no exception was raised.
C28_DetailNeverFails ==
  (dash.pc = "done" /\ dash.filtered_df # <<>>) =>
    /\ dash.shown = "detail"
    /\ dash.selected # None
    /\ \E i \in 1 .. Len(dash.filtered_df) : dash.filtered_df[i] = dash.selected[1]

\* ------------------------------------------------------------------ C29

\* C29: a run on an empty table whose read did not fail ends in the warning
\* that no record matches; the error state is shown only when the read of
\* the database failed.
C29_EmptyTableWarns ==
  /\ (dash.pc \in {"done", "stopped"} /\ table = <<>> /\ dash.shown # "error") =>
       dash.shown = "warning"
  /\ dash.shown = "error" => dash.pc = "stopped" /\ dash.df = <<>>

====
